---- MODULE Spec2Model ----
(***************************************************************************)
(* gopher_configuration.configuration: the Borg-style Configuration class  *)
(* (class-level __shared_state, load_defaults, load_from_rosparam_server,  *)
(* __init__) and the ConfigurationGroup variants with their validate().    *)
(*                                                                         *)
(* Python objects have identity: a dictionary returned by rospy.get_param  *)
(* or yaml.load is a fresh object, and Buttons(d) etc. ALIAS d             *)
(* (self.__dict__ = d).  The model keeps every loaded top-level dictionary *)
(* in `loads`; the dictionary of group g of the i-th load is the object    *)
(* (i, g), whose contents are loads[i].groups[g].                          *)
(*                                                                         *)
(* Input domain: every core group's value in a loaded mapping is itself a  *)
(* mapping (spec section 6); scalar group values are outside the model.    *)
(***************************************************************************)
EXTENDS Integers, Sequences, FiniteSets, TLC

VARIABLES
    shared_state,   \* Configuration.__shared_state: 0 = the initial {} , i > 0 = loads[i]
    loads,          \* every dictionary ever returned by rospy.get_param / yaml.load
    handles,        \* the Configuration instances constructed so far
    last,           \* the most recent call: what it was and what it did
    inits           \* the __init__ calls running step by step, one per thread

vars == <<shared_state, loads, handles, last, inits>>

---------------------------------------------------------------------------
(* Bounds of the model *)
MaxLoads == 2       \* successful fetches / default loads in one behaviour
MaxHandles == 2     \* handles constructed in one behaviour

---------------------------------------------------------------------------
(* Names and constants of the source *)

\* default argument of load_from_rosparam_server
DefaultNamespace == "/gopher/configuration"
OtherNamespace == "/foo/configuration"
StoreNamespaces == {DefaultNamespace, OtherNamespace}
DefaultsFile == "param/defaults.yaml"

\* the list `core` of __init__
core == <<"actions", "buttons", "namespaces", "frames", "topics", "services", "sounds", "led_patterns">>

\* the order in which the try block of __init__ reads the shared state
TryOrder == <<"actions", "buttons", "namespaces", "frames", "sounds", "services", "topics">>

SeqToSet(s) == {s[n] : n \in 1..Len(s)}
CoreNames == SeqToSet(core)
StoreGroups == SeqToSet(TryOrder)

\* the key list each variant's validate() walks
RequiredKeys(g) ==
    CASE g = "buttons"    -> <<"go", "stop">>
      [] g = "frames"     -> <<"map">>
      [] g = "actions"    -> <<"teleport">>
      [] g = "services"   -> <<"clear_costmaps">>
      [] g = "sounds"     -> <<"honk">>
      [] g = "topics"     -> <<"display_notification", "initial_pose", "switch_map">>
      [] g = "namespaces" -> <<"semantics">>
      [] OTHER            -> <<>>

\* the noun each variant's validate() puts in its message
Noun(g) ==
    CASE g = "buttons"    -> "button"
      [] g = "frames"     -> "frame"
      [] g = "actions"    -> "action"
      [] g = "services"   -> "service"
      [] g = "sounds"     -> "sound"
      [] g = "topics"     -> "topic"
      [] g = "namespaces" -> "namespace"
      [] OTHER            -> "none"

\* "no definition for <noun> '<key>'"
NoDefinitionMsg(g, key) == <<"no definition for", Noun(g), key>>

\* "at least one of the core parameter groups missing %s" % core
MissingCoreMsg == <<"at least one of the core parameter groups missing">> \o core

None == <<>>

\* an LEDPatterns.__init__ that leaves the "error" pattern out
LEDPatternsInitNoError ==
    [k \in {"humans_give_me_input", "humans_be_careful", "humans_i_need_help", "holding"} |->
        CASE k = "humans_give_me_input" -> "FLASH_BLUE"
          [] k = "humans_be_careful"    -> "FLASH_YELLOW"
          [] k = "humans_i_need_help"   -> "FLASH_PURPLE"
          [] OTHER                      -> "AROUND_RIGHT_BLUE"]

\* LEDPatterns.__init__: five fixed attributes
LEDPatternsInit ==
    [k \in {"humans_give_me_input", "humans_be_careful", "humans_i_need_help", "holding", "error"} |->
        CASE k = "humans_give_me_input" -> "FLASH_BLUE"
          [] k = "humans_be_careful"    -> "FLASH_YELLOW"
          [] k = "humans_i_need_help"   -> "FLASH_PURPLE"
          [] k = "holding"              -> "AROUND_RIGHT_BLUE"
          [] OTHER                      -> "SOLID_RED"]

---------------------------------------------------------------------------
(* validate() of the group variants *)

\* the loop stopping one key short of the end of its list
RECURSIVE ValidateLoopShort(_, _, _)
ValidateLoopShort(g, d, n) ==
    IF n >= Len(RequiredKeys(g)) THEN [ok |-> TRUE, msg |-> None]
    ELSE IF RequiredKeys(g)[n] \notin DOMAIN d
         THEN [ok |-> FALSE, msg |-> NoDefinitionMsg(g, RequiredKeys(g)[n])]
         ELSE ValidateLoopShort(g, d, n + 1)

\* for key in [...]: if key not in self.__dict__.keys(): return (False, msg)
RECURSIVE ValidateLoop(_, _, _)
ValidateLoop(g, d, n) ==
    IF n > Len(RequiredKeys(g)) THEN [ok |-> TRUE, msg |-> None]
    ELSE IF RequiredKeys(g)[n] \notin DOMAIN d
         THEN [ok |-> FALSE, msg |-> NoDefinitionMsg(g, RequiredKeys(g)[n])]
         ELSE ValidateLoop(g, d, n + 1)

\* a validate() that walks its whole key list and names the last missing key
validateLastMissing(g, d) ==
    LET miss == {n \in 1..Len(RequiredKeys(g)) : RequiredKeys(g)[n] \notin DOMAIN d} IN
    IF g = "led_patterns" \/ miss = {} THEN [ok |-> TRUE, msg |-> None]
    ELSE [ok |-> FALSE,
          msg |-> NoDefinitionMsg(g, RequiredKeys(g)[CHOOSE n \in miss : \A m \in miss : m <= n])]

\* <Variant>.validate() on a group whose __dict__ is d; LEDPatterns.validate()
validate(g, d) ==
    IF g = "led_patterns" THEN [ok |-> TRUE, msg |-> None]
    ELSE ValidateLoop(g, d, 1)

---------------------------------------------------------------------------
(* Dictionaries: what the store and the defaults file can return *)

Values == {"a", "b"}
EmptyMap == [k \in {} |-> "a"]

\* a top-level mapping: the core groups it holds (each a mapping) and its other keys
Mapping(groups, extras) == [found |-> TRUE, groups |-> groups, extras |-> extras]
\* rospy.get_param raising KeyError / the defaults file failing to open or parse
Failure == [found |-> FALSE, groups |-> EmptyMap, extras |-> EmptyMap]

GroupDict(K) == [k \in K |-> "a"]
FullGroups == [g \in StoreGroups |-> GroupDict(SeqToSet(RequiredKeys(g)))]
Restrict(f, S) == [x \in S |-> f[x]]

\* the initial value of __shared_state, {}
InitialDict == [groups |-> EmptyMap, extras |-> EmptyMap]

\* the dictionary __shared_state refers to
Dict(ss, lds) == IF ss = 0 THEN InitialDict ELSE lds[ss]
TopKeys(c) == DOMAIN c.groups \cup DOMAIN c.extras

---------------------------------------------------------------------------
(* Configuration.load_from_rosparam_server and Configuration.load_defaults *)

\* an except branch that falls back to the empty dictionary
OnKeyErrorReset(ss) == 0

\* except KeyError: two rospy.logerr calls, __shared_state not assigned
OnKeyError(ss) == ss

\* a fetch that updates the dictionary with the fetched mapping instead of replacing
\* it: keys of the earlier dictionary the fetched mapping lacks are kept
RosparamLoadMerge(ss, lds, ns, r) ==
    IF r.found
    THEN [ss |-> Len(lds) + 1,
          lds |-> Append(lds, [src |-> ns,
                               groups |-> r.groups @@ Dict(ss, lds).groups,
                               extras |-> r.extras @@ Dict(ss, lds).extras]),
          logerr |-> FALSE]
    ELSE [ss |-> OnKeyError(ss), lds |-> lds, logerr |-> TRUE]

\* try: Configuration.__shared_state = rospy.get_param(namespace) except KeyError: ...
RosparamLoad(ss, lds, ns, r) ==
    IF r.found
    THEN [ss |-> Len(lds) + 1,
          lds |-> Append(lds, [src |-> ns, groups |-> r.groups, extras |-> r.extras]),
          logerr |-> FALSE]
    ELSE [ss |-> OnKeyError(ss), lds |-> lds, logerr |-> TRUE]

\* a load_defaults that empties the shared state before it opens the file
DefaultsLoadClearFirst(ss, lds, r) ==
    IF r.found
    THEN [ss |-> Len(lds) + 1,
          lds |-> Append(lds, [src |-> DefaultsFile, groups |-> r.groups, extras |-> r.extras]),
          raised |-> "none"]
    ELSE [ss |-> 0, lds |-> lds, raised |-> "IOError"]

\* Configuration.__shared_state = yaml.load(open(filename))
DefaultsLoad(ss, lds, r) ==
    IF r.found
    THEN [ss |-> Len(lds) + 1,
          lds |-> Append(lds, [src |-> DefaultsFile, groups |-> r.groups, extras |-> r.extras]),
          raised |-> "none"]
    ELSE [ss |-> ss, lds |-> lds, raised |-> "IOError"]

\* the record of a call: the operation, its namespace or group argument, the handle
\* it built or acted on, the exception it raised, the namespaces it fetched, whether
\* it called rospy.logerr, the error_logger messages it sent, validate()'s result,
\* and the mapping rospy.get_param or yaml.load returned to it
NoCall == [op |-> "none", ns |-> "", h |-> 0, raised |-> "none", fetched |-> <<>>,
           logerr |-> FALSE, reported |-> <<>>, ret |-> <<>>, got |-> <<>>]

\* the mapping a successful fetch or file load returned
Got(r) == IF r.found THEN <<[groups |-> r.groups, extras |-> r.extras]>> ELSE <<>>

LoadFromRosparamServer(ns, r) ==
    LET after == RosparamLoad(shared_state, loads, ns, r) IN
    /\ shared_state' = after.ss
    /\ loads' = after.lds
    /\ last' = [NoCall EXCEPT !.op = "load_from_rosparam_server", !.ns = ns,
                              !.fetched = <<ns>>, !.logerr = after.logerr,
                              !.got = Got(r)]
    /\ UNCHANGED <<handles, inits>>

LoadDefaults(r) ==
    LET after == DefaultsLoad(shared_state, loads, r) IN
    /\ shared_state' = after.ss
    /\ loads' = after.lds
    /\ last' = [NoCall EXCEPT !.op = "load_defaults", !.raised = after.raised,
                              !.got = Got(r)]
    /\ UNCHANGED <<handles, inits>>

---------------------------------------------------------------------------
(* Configuration.__init__ *)

\* if not Configuration.__shared_state
NeedsFetch(ss, lds) == TopKeys(Dict(ss, lds)) = {}

\* the position in the try block of the first lookup that raises KeyError
\* (Len(TryOrder) + 1 when none does)
RECURSIVE FirstMissing(_, _)
FirstMissing(c, n) ==
    IF n > Len(TryOrder) THEN n
    ELSE IF TryOrder[n] \notin DOMAIN c.groups THEN n
         ELSE FirstMissing(c, n + 1)

\* the try block: the group attributes bound, in order, until a lookup raises
TryBlock(c) ==
    LET m == FirstMissing(c, 1) IN
    [ok |-> m > Len(TryOrder),
     assigned |-> {TryOrder[n] : n \in 1..(m - 1)}]

\* the validation pass leaving its loop at the first failure
RECURSIVE ValidationPassBreak(_, _)
ValidationPassBreak(c, n) ==
    IF n > Len(core) THEN <<>>
    ELSE LET g == core[n]
             res == validate(g, IF g = "led_patterns" THEN LEDPatternsInit ELSE c.groups[g])
         IN IF res.ok THEN ValidationPassBreak(c, n + 1) ELSE <<res.msg>>

\* for name in core: validate, error_logger("%s" % error_message) on failure
RECURSIVE ValidationPass(_, _)
ValidationPass(c, n) ==
    IF n > Len(core) THEN <<>>
    ELSE LET g == core[n]
             res == validate(g, IF g = "led_patterns" THEN LEDPatternsInit ELSE c.groups[g])
         IN (IF res.ok THEN <<>> ELSE <<res.msg>>) \o ValidationPass(c, n + 1)

\* the copy loop with a core list that lacks 'led_patterns'
PassThroughNoLed(c) ==
    LET keys == {k \in TopKeys(c) : k \notin StoreGroups} IN
    [k \in keys |-> c.extras[k]]

\* for key, value in __shared_state.iteritems(): if key not in core: setattr(self, key, value)
PassThrough(c) ==
    LET keys == {k \in TopKeys(c) : k \notin CoreNames} IN
    [k \in keys |-> c.extras[k]]

\* the except branch without its return: the validation pass still runs over the
\* groups that are present
OnMissingGroupNoReturn(c) ==
    LET failing == SelectSeq(core, LAMBDA g : g \in DOMAIN c.groups /\ ~validate(g, c.groups[g]).ok) IN
    [log |-> <<MissingCoreMsg>> \o [n \in 1..Len(failing) |-> validate(failing[n], c.groups[failing[n]]).msg],
     ext |-> EmptyMap]

\* what the except branch leaves behind: error_logger(...) and return
OnMissingGroup(c) == [log |-> <<MissingCoreMsg>>, ext |-> EmptyMap]

\* an instance whose led_patterns attribute is bound ahead of the try block
NewHandleLedFirst(c, i) ==
    LET t == TryBlock(c)
        rest == IF t.ok THEN [log |-> ValidationPass(c, 1), ext |-> PassThrough(c)]
                ELSE OnMissingGroup(c)
    IN [src |-> i,
        grp |-> t.assigned,
        led |-> <<LEDPatternsInit>>,
        ext |-> rest.ext,
        log |-> rest.log]

\* the instance __init__ builds from the dictionary c, which is load number i
NewHandle(c, i) ==
    LET t == TryBlock(c)
        rest == IF t.ok THEN [log |-> ValidationPass(c, 1), ext |-> PassThrough(c)]
                ELSE OnMissingGroup(c)
    IN [src |-> i,
        grp |-> t.assigned,
        led |-> IF t.ok THEN <<LEDPatternsInit>> ELSE <<>>,
        ext |-> rest.ext,
        log |-> rest.log]

\* a constructor that moves the pass-through keys out of the shared dictionary
\* (pop instead of read) once that dictionary is populated
ConstructConsuming(R) ==
    LET finish(after, fetched, got) ==
            LET h == NewHandle(Dict(after.ss, after.lds), after.ss) IN
            /\ shared_state' = after.ss
            /\ loads' = IF fetched = <<>> /\ after.ss # 0
                        THEN [after.lds EXCEPT ![after.ss].extras = EmptyMap]
                        ELSE after.lds
            /\ handles' = Append(handles, h)
            /\ UNCHANGED inits
            /\ last' = [NoCall EXCEPT !.op = "construct", !.h = Len(handles) + 1,
                                      !.fetched = fetched, !.got = got,
                                      !.logerr = after.logerr, !.reported = h.log]
    IN IF NeedsFetch(shared_state, loads)
       THEN \E r \in R :
                finish(RosparamLoad(shared_state, loads, DefaultNamespace, r),
                       <<DefaultNamespace>>, Got(r))
       ELSE finish([ss |-> shared_state, lds |-> loads, logerr |-> FALSE], <<>>, <<>>)

\* a constructor that tries the implicit fetch for the first instance only
ConstructFetchOnce(R) ==
    LET finish(after, fetched, got) ==
            LET h == NewHandle(Dict(after.ss, after.lds), after.ss) IN
            /\ shared_state' = after.ss
            /\ loads' = after.lds
            /\ handles' = Append(handles, h)
            /\ UNCHANGED inits
            /\ last' = [NoCall EXCEPT !.op = "construct", !.h = Len(handles) + 1,
                                      !.fetched = fetched, !.got = got,
                                      !.logerr = after.logerr, !.reported = h.log]
    IN IF NeedsFetch(shared_state, loads) /\ handles = <<>>
       THEN \E r \in R :
                finish(RosparamLoad(shared_state, loads, DefaultNamespace, r),
                       <<DefaultNamespace>>, Got(r))
       ELSE finish([ss |-> shared_state, lds |-> loads, logerr |-> FALSE], <<>>, <<>>)

\* Configuration(error_logger): R is what the store may answer to the implicit fetch
Construct(R) ==
    LET finish(after, fetched, got) ==
            LET h == NewHandle(Dict(after.ss, after.lds), after.ss) IN
            /\ shared_state' = after.ss
            /\ loads' = after.lds
            /\ handles' = Append(handles, h)
            /\ UNCHANGED inits
            /\ last' = [NoCall EXCEPT !.op = "construct", !.h = Len(handles) + 1,
                                      !.fetched = fetched, !.got = got,
                                      !.logerr = after.logerr, !.reported = h.log]
    IN IF NeedsFetch(shared_state, loads)
       THEN \E r \in R :
                finish(RosparamLoad(shared_state, loads, DefaultNamespace, r),
                       <<DefaultNamespace>>, Got(r))
       ELSE finish([ss |-> shared_state, lds |-> loads, logerr |-> FALSE], <<>>, <<>>)

---------------------------------------------------------------------------
(* What callers do with a handle *)

\* handle.<g>.<k> = v: the group's __dict__ IS the loaded sub-dictionary
SetGroupAttr(h, g, k, v) ==
    /\ h \in 1..Len(handles)
    /\ g \in handles[h].grp
    /\ loads' = [loads EXCEPT ![handles[h].src].groups[g] = (k :> v) @@ @]
    /\ last' = [NoCall EXCEPT !.op = "setattr_group", !.ns = g, !.h = h]
    /\ UNCHANGED <<shared_state, handles, inits>>

\* handle.led_patterns.<k> = v: the LEDPatterns instance belongs to the handle
SetLedAttr(h, k, v) ==
    /\ h \in 1..Len(handles)
    /\ handles[h].led # <<>>
    /\ handles' = [handles EXCEPT ![h].led = <<(k :> v) @@ @[1]>>]
    /\ last' = [NoCall EXCEPT !.op = "setattr_led", !.ns = "led_patterns", !.h = h]
    /\ UNCHANGED <<shared_state, loads, inits>>

\* handle.<k> = v
SetHandleAttr(h, k, v) ==
    /\ h \in 1..Len(handles)
    /\ handles' = [handles EXCEPT ![h].ext = (k :> v) @@ @]
    /\ last' = [NoCall EXCEPT !.op = "setattr_handle", !.h = h]
    /\ UNCHANGED <<shared_state, loads, inits>>

\* the __dict__ of handle.<g>
GroupOf(h, g) ==
    IF g = "led_patterns" THEN handles[h].led[1] ELSE loads[handles[h].src].groups[g]

\* handle.<g>.validate()
Validate(h, g) ==
    /\ h \in 1..Len(handles)
    /\ \/ g \in handles[h].grp
       \/ g = "led_patterns" /\ handles[h].led # <<>>
    /\ last' = [NoCall EXCEPT !.op = "validate", !.ns = g, !.h = h,
                              !.ret = <<validate(g, GroupOf(h, g))>>]
    /\ UNCHANGED <<shared_state, loads, handles, inits>>

---------------------------------------------------------------------------
(* Configuration.__init__ statement by statement, for callers on several       *)
(* threads: every read of Configuration.__shared_state is a step of its own,   *)
(* and a load by another thread may come between two of them.  The instance    *)
(* under construction lives in inits[t]: pc is the statement it stands before, *)
(* refs[g] the number of the load whose dictionary of group g self.<g>         *)
(* aliases, from the number of the load the pass-through attributes were       *)
(* copied from.                                                                *)

Threads == {"t1", "t2"}

NotStarted == [pc |-> "start", n |-> 0, refs |-> EmptyMap, led |-> <<>>,
               log |-> <<>>, ext |-> EmptyMap, from |-> <<>>]

\* the groups bound so far, with the contents of the dictionaries they alias
BoundGroups(i) ==
    [groups |-> [g \in DOMAIN i.refs |-> loads[i.refs[g]].groups[g]], extras |-> EmptyMap]

\* if not Configuration.__shared_state:
InitTest(t) ==
    /\ inits[t].pc = "start"
    /\ inits' = [inits EXCEPT ![t].pc = IF NeedsFetch(shared_state, loads) THEN "fetch" ELSE "try",
                              ![t].n = 1]
    /\ UNCHANGED <<shared_state, loads, handles, last>>

\* Configuration.load_from_rosparam_server()
InitFetch(t, r) ==
    LET after == RosparamLoad(shared_state, loads, DefaultNamespace, r) IN
    /\ inits[t].pc = "fetch"
    /\ shared_state' = after.ss
    /\ loads' = after.lds
    /\ last' = [NoCall EXCEPT !.op = "load_from_rosparam_server", !.ns = DefaultNamespace,
                              !.fetched = <<DefaultNamespace>>, !.logerr = after.logerr,
                              !.got = Got(r)]
    /\ inits' = [inits EXCEPT ![t].pc = "try"]
    /\ UNCHANGED handles

\* one statement of the try block: self.<g> = <G>(Configuration.__shared_state['<g>']),
\* the last one followed by self.led_patterns = LEDPatterns(); except KeyError:
\* error_logger(...), return
InitLookup(t) ==
    LET i == inits[t]
        g == TryOrder[i.n]
        c == Dict(shared_state, loads)
    IN /\ i.pc = "try"
       /\ inits' = [inits EXCEPT ![t] =
                      IF g \notin DOMAIN c.groups
                      THEN [i EXCEPT !.pc = "done", !.log = OnMissingGroup(c).log]
                      ELSE IF i.n < Len(TryOrder)
                      THEN [i EXCEPT !.refs = (g :> shared_state) @@ @, !.n = @ + 1]
                      ELSE [i EXCEPT !.refs = (g :> shared_state) @@ @, !.n = @ + 1,
                                     !.led = <<LEDPatternsInit>>, !.pc = "validate"]]
       /\ UNCHANGED <<shared_state, loads, handles, last>>

\* for name in core: validate, error_logger on failure
InitValidate(t) ==
    /\ inits[t].pc = "validate"
    /\ inits' = [inits EXCEPT ![t].log = ValidationPass(BoundGroups(inits[t]), 1),
                              ![t].pc = "copy"]
    /\ UNCHANGED <<shared_state, loads, handles, last>>

\* a copy loop that works on the dictionary the first group was read from
InitCopyFromFirst(t) ==
    LET first == inits[t].refs[TryOrder[1]] IN
    /\ inits[t].pc = "copy"
    /\ inits' = [inits EXCEPT ![t].ext = PassThrough(Dict(first, loads)),
                              ![t].from = <<first>>,
                              ![t].pc = "done"]
    /\ UNCHANGED <<shared_state, loads, handles, last>>

\* for key, value in Configuration.__shared_state.iteritems(): the attribute is read
\* once, the loop then walks that dictionary
InitCopy(t) ==
    /\ inits[t].pc = "copy"
    /\ inits' = [inits EXCEPT ![t].ext = PassThrough(Dict(shared_state, loads)),
                              ![t].from = <<shared_state>>,
                              ![t].pc = "done"]
    /\ UNCHANGED <<shared_state, loads, handles, last>>

---------------------------------------------------------------------------
(* Inputs *)

\* a complete configuration with one pass-through key
FullA == Mapping(FullGroups, "custom_stuff" :> "a")
\* another complete configuration: another button setting, another pass-through key
FullB == Mapping([FullGroups EXCEPT !["buttons"]["go"] = "b"], "other_stuff" :> "b")
\* an empty mapping: the namespace exists and holds {}
Empty == Mapping(EmptyMap, EmptyMap)
\* the "sounds" group is absent
NoSounds == Mapping(Restrict(FullGroups, StoreGroups \ {"sounds"}), "custom_stuff" :> "a")
\* the "buttons" group lacks the required key "stop"
NoStop == Mapping([FullGroups EXCEPT !["buttons"] = GroupDict({"go"})], EmptyMap)

\* what rospy.get_param may answer
StoreResults == {FullA, FullB, Empty, Failure}
\* what reading param/defaults.yaml may give
DefaultsResults == {Mapping(FullGroups, EmptyMap), Failure}

\* the attribute assignments callers make
AssignGroups == {"buttons"}
AssignKeys == {"stop"}
AssignValue == "b"

Init ==
    /\ shared_state = 0
    /\ loads = <<>>
    /\ handles = <<>>
    /\ last = NoCall
    /\ inits = [t \in Threads |-> NotStarted]

CallLoadFromRosparamServer ==
    \E ns \in StoreNamespaces, r \in StoreResults :
        /\ r.found => Len(loads) < MaxLoads
        /\ LoadFromRosparamServer(ns, r)

CallLoadDefaults ==
    \E r \in DefaultsResults :
        /\ r.found => Len(loads) < MaxLoads
        /\ LoadDefaults(r)

CallConstruct ==
    /\ Len(handles) < MaxHandles
    /\ Construct(IF Len(loads) < MaxLoads THEN StoreResults ELSE {Failure})

CallSetGroupAttr ==
    \E h \in 1..Len(handles), g \in AssignGroups, k \in AssignKeys :
        SetGroupAttr(h, g, k, AssignValue)

CallSetLedAttr ==
    \E h \in 1..Len(handles) : SetLedAttr(h, "error", AssignValue)

CallSetHandleAttr ==
    \E h \in 1..Len(handles) : SetHandleAttr(h, "custom_stuff", AssignValue)

Next ==
    \/ CallLoadFromRosparamServer
    \/ CallLoadDefaults
    \/ CallConstruct
    \/ CallSetGroupAttr
    \/ CallSetHandleAttr

Spec == Init /\ [][Next]_vars

---------------------------------------------------------------------------
(* Construction over every shape of RawConfiguration: each core group absent *)
(* or present with any subset of its required keys, and any pass-through     *)
(* keys, a key named "led_patterns" among them.                              *)

\* a group is absent (<<>>) or present with the keys K (<<K>>)
Opt(g) == {<<>>} \cup {<<K>> : K \in SUBSET SeqToSet(RequiredKeys(g))}

GroupsOf(o) == [g \in {x \in StoreGroups : o[x] # <<>>} |-> GroupDict(o[g][1])]

WideExtras ==
    {EmptyMap, "custom_stuff" :> "a", "custom_stuff" :> "b", "led_patterns" :> "a",
     ("custom_stuff" :> "a") @@ ("led_patterns" :> "a")}

WideMappings ==
    {Mapping(GroupsOf([g \in StoreGroups |->
                         CASE g = "actions"    -> oa
                           [] g = "buttons"    -> ob
                           [] g = "namespaces" -> on
                           [] g = "frames"     -> of
                           [] g = "sounds"     -> oso
                           [] g = "services"   -> ose
                           [] OTHER            -> ot]), e) :
        oa \in Opt("actions"), ob \in Opt("buttons"), on \in Opt("namespaces"),
        of \in Opt("frames"), oso \in Opt("sounds"), ose \in Opt("services"),
        ot \in Opt("topics"), e \in WideExtras}

WideLoad ==
    /\ loads = <<>>
    /\ \E r \in WideMappings : LoadFromRosparamServer(DefaultNamespace, r)

WideConstruct ==
    /\ handles = <<>>
    /\ Construct(IF loads = <<>> THEN WideMappings \cup {Failure} ELSE {Failure})

\* handle.led_patterns.validate()
WideValidateLed ==
    \E h \in 1..Len(handles) : Validate(h, "led_patterns")

NextWide == WideLoad \/ WideConstruct \/ WideValidateLed

SpecWide == Init /\ [][NextWide]_vars

---------------------------------------------------------------------------
(* validate() over every key set of every variant, extra keys included *)

ValidateMappings ==
    UNION {{Mapping([FullGroups EXCEPT ![g] = GroupDict(K)], EmptyMap) :
                K \in SUBSET (SeqToSet(RequiredKeys(g)) \cup {"extra", "other"})} :
           g \in StoreGroups}

ValidateLoad ==
    /\ loads = <<>>
    /\ \E r \in ValidateMappings : LoadFromRosparamServer(DefaultNamespace, r)

ValidateConstruct ==
    /\ handles = <<>>
    /\ Construct({Failure})

CallValidate ==
    \E h \in 1..Len(handles), g \in CoreNames : Validate(h, g)

NextValidate == ValidateLoad \/ ValidateConstruct \/ CallValidate

SpecValidate == Init /\ [][NextValidate]_vars

---------------------------------------------------------------------------
(* Two threads constructing while loads happen *)

\* what the store may answer while threads construct
ThreadResults == {FullA, FullB, Failure}

\* some __init__ has not returned yet
Constructing == \E t \in Threads : inits[t].pc # "done"

\* the loads of the other callers succeed here (failing loads change nothing, C3 and C18)
ThreadLoadFromRosparamServer ==
    /\ Constructing
    /\ Len(loads) < MaxLoads
    /\ LoadFromRosparamServer(DefaultNamespace, FullB)

ThreadLoadDefaults ==
    /\ Constructing
    /\ Len(loads) < MaxLoads
    /\ LoadDefaults(Mapping(FullGroups, EmptyMap))

\* the threads are alike: "t1" is the one that enters __init__ first
ThreadInitTest ==
    \E t \in Threads :
        /\ t # "t1" => inits["t1"].pc # "start"
        /\ InitTest(t)

ThreadInitFetch ==
    \E t \in Threads, r \in ThreadResults :
        /\ r.found => Len(loads) < MaxLoads
        /\ InitFetch(t, r)

ThreadInitLookup == \E t \in Threads : InitLookup(t)

ThreadInitValidate == \E t \in Threads : InitValidate(t)

ThreadInitCopy == \E t \in Threads : InitCopy(t)

NextThreads ==
    \/ ThreadLoadFromRosparamServer
    \/ ThreadLoadDefaults
    \/ ThreadInitTest
    \/ ThreadInitFetch
    \/ ThreadInitLookup
    \/ ThreadInitValidate
    \/ ThreadInitCopy

SpecThreads == Init /\ [][NextThreads]_vars

---------------------------------------------------------------------------
(* Properties of construction, under SpecWide (no dictionary is assigned to   *)
(* after it is loaded there, so loads[h.src] is what handle h was built from) *)

\* the dictionary handle h was built from
SourceOf(h) == Dict(h.src, loads)
HandleSet == {handles[n] : n \in 1..Len(handles)}
\* a store-backed core group is absent
GroupMissing(c) == \E g \in {"actions", "buttons", "namespaces", "frames", "sounds", "services", "topics"} :
                       g \notin DOMAIN c.groups
EightCoreNames == {"actions", "buttons", "namespaces", "frames", "topics", "services", "sounds", "led_patterns"}
\* the core group attributes set on handle h
CoreAttrs(h) == h.grp \cup (IF h.led # <<>> THEN {"led_patterns"} ELSE {})

\* C1: whenever a store-backed core group is absent from RawConfiguration, whichever
\* it is, the constructed handle has none of the eight core group attributes set.
C1_NoCoreAttrWhenGroupMissing ==
    \A h \in HandleSet : GroupMissing(SourceOf(h)) => CoreAttrs(h) = {}

\* C2: whenever a store-backed core group is absent, construct calls error_reporter
\* exactly once, with the message listing the eight core names, and makes no other
\* error_reporter call.
C2_MissingGroupReportedOnce ==
    /\ \A h \in HandleSet : GroupMissing(SourceOf(h)) => h.log = <<MissingCoreMsg>>
    /\ (last.op = "construct" /\ GroupMissing(SourceOf(handles[last.h])))
           => last.reported = <<MissingCoreMsg>>

\* C2 witness: "sounds" is absent while "buttons", present, lacks a required key, and
\* the single report is the missing-core-groups message.
C2_Witness ==
    \E h \in HandleSet :
        /\ DOMAIN SourceOf(h).groups = EightCoreNames \ {"sounds", "led_patterns"}
        /\ "stop" \notin DOMAIN SourceOf(h).groups["buttons"]
        /\ h.log = <<MissingCoreMsg>>
        /\ Len(MissingCoreMsg) = Cardinality(EightCoreNames) + 1

\* the error_reporter calls of handle h that carry a validation message of group g
ReportsAbout(h, g) ==
    {n \in 1..Len(h.log) : Len(h.log[n]) = Len(NoDefinitionMsg(g, "")) /\ h.log[n][2] = Noun(g)}
FailingGroups(c) == {g \in DOMAIN c.groups : ~validate(g, c.groups[g]).ok}

\* C8: when the seven store-backed groups are all present, construct calls
\* error_reporter exactly once for each group whose validate() fails and never for a
\* group that passes, and still sets the eight core group attributes and every
\* pass-through attribute.
C8_ValidationFailuresOnlyWarn ==
    \A h \in HandleSet :
        ~GroupMissing(SourceOf(h)) =>
            /\ \A g \in DOMAIN SourceOf(h).groups :
                   Cardinality(ReportsAbout(h, g)) = IF g \in FailingGroups(SourceOf(h)) THEN 1 ELSE 0
            /\ Len(h.log) = Cardinality(FailingGroups(SourceOf(h)))
            /\ MissingCoreMsg \notin {h.log[n] : n \in 1..Len(h.log)}
            /\ CoreAttrs(h) = EightCoreNames
            /\ \A k \in DOMAIN SourceOf(h).extras \ EightCoreNames : k \in DOMAIN h.ext

\* C8 witness: three groups fail validation, each is reported once, and the handle
\* has its eight groups and its pass-through attribute.
C8_Witness ==
    \E h \in HandleSet :
        /\ ~GroupMissing(SourceOf(h))
        /\ FailingGroups(SourceOf(h)) = {"buttons", "topics", "sounds"}
        /\ Len(h.log) = Cardinality({"buttons", "topics", "sounds"})
        /\ CoreAttrs(h) = EightCoreNames
        /\ "custom_stuff" \in DOMAIN h.ext

\* C9: when the seven store-backed groups are all present, the pass-through
\* attributes are exactly the top-level keys outside the eight core names, with the
\* values RawConfiguration holds; a key named after a core group is never copied.
C9_PassThroughExactlyNonCore ==
    \A h \in HandleSet :
        ~GroupMissing(SourceOf(h)) =>
            /\ \A k \in TopKeys(SourceOf(h)) : (k \in DOMAIN h.ext) <=> (k \notin EightCoreNames)
            /\ DOMAIN h.ext \subseteq TopKeys(SourceOf(h))
            /\ \A k \in DOMAIN h.ext : h.ext[k] = SourceOf(h).extras[k]

\* C9 witness: RawConfiguration holds "custom_stuff" and a "led_patterns" key; only
\* the former became a pass-through attribute.
C9_Witness ==
    \E h \in HandleSet :
        /\ ~GroupMissing(SourceOf(h))
        /\ DOMAIN SourceOf(h).extras = {"custom_stuff", "led_patterns"}
        /\ DOMAIN h.ext = {"custom_stuff"}
        /\ h.ext["custom_stuff"] = "a"
        /\ h.led = <<LEDPatternsInit>>

---------------------------------------------------------------------------
(* Properties of the shared state, under Spec *)

LoadOps == {"load_from_rosparam_server", "load_defaults"}
\* RawConfiguration: the contents of the dictionary __shared_state refers to
RawConfiguration == [groups |-> Dict(shared_state, loads).groups,
                     extras |-> Dict(shared_state, loads).extras]
\* the attributes seen through handle number n: its group attributes with the
\* contents of the dictionaries they refer to, its LED patterns, its other attributes
Seen(hs, lds, n) ==
    [grp |-> [g \in hs[n].grp |-> IF g \in DOMAIN lds[hs[n].src].groups
                                  THEN <<lds[hs[n].src].groups[g]>> ELSE <<>>],
     led |-> hs[n].led,
     ext |-> hs[n].ext]

\* C3: a set_store_namespace call whose fetch fails leaves RawConfiguration (and every
\* loaded dictionary) as it was, calls no error_reporter and raises nothing.
C3_FailedFetchChangesNothing ==
    [][(last'.op = "load_from_rosparam_server" /\ last'.logerr) =>
           /\ shared_state' = shared_state
           /\ loads' = loads
           /\ handles' = handles
           /\ last'.reported = <<>>
           /\ last'.raised = "none"]_vars

\* C3 witness: a fetch has just failed while RawConfiguration was populated by an
\* earlier fetch of another namespace, and a handle exists.
C3_Witness ==
    /\ last.op = "load_from_rosparam_server" /\ last.logerr
    /\ shared_state # 0
    /\ TopKeys(Dict(shared_state, loads)) # {}
    /\ loads[shared_state].src # last.ns
    /\ handles # <<>>

\* C4: a handle constructed right after set_store_namespace(ns) is derived from the
\* configuration stored at ns, whatever the outcome of that call's fetch.
C4_HandlesFollowNamespace ==
    [][(last.op = "load_from_rosparam_server" /\ last'.op = "construct") =>
           LET h == handles'[last'.h] IN
           h.src # 0 => loads'[h.src].src = last.ns]_vars

\* C5: once RawConfiguration has been populated, with whatever mapping, no later
\* construct fetches from the store or replaces RawConfiguration.
C5_NoFetchOncePopulated ==
    [][(shared_state # 0 /\ last'.op = "construct") =>
           (last'.fetched = <<>> /\ shared_state' = shared_state /\ loads' = loads)]_vars

\* C6: neither construct itself (its implicit populate apart) nor an attribute
\* assignment on a handle or on a handle's group changes RawConfiguration or the
\* attributes seen through any other handle.
C6_AssignmentsStayLocal ==
    [][/\ (last'.op = "construct" /\ last'.fetched = <<>>) =>
              RawConfiguration' = RawConfiguration
       /\ last'.op \in {"construct", "setattr_group", "setattr_handle"} =>
              \A n \in 1..Len(handles) :
                  n # last'.h => Seen(handles', loads', n) = Seen(handles, loads, n)
       /\ last'.op \in {"setattr_group", "setattr_handle"} =>
              RawConfiguration' = RawConfiguration]_vars

\* what is seen through handle number n is what construction derives from the
\* dictionary c: its groups are groups of c with c's contents and, when no group is
\* missing, it has the eight groups and c's pass-through keys and values
Reflects(hs, lds, n, c) ==
    LET s == Seen(hs, lds, n) IN
    /\ DOMAIN s.grp \subseteq DOMAIN c.groups
    /\ \A g \in DOMAIN s.grp : s.grp[g] = <<c.groups[g]>>
    /\ ~GroupMissing(c) =>
           /\ CoreAttrs(hs[n]) = EightCoreNames
           /\ DOMAIN s.ext = DOMAIN c.extras \ EightCoreNames
           /\ \A k \in DOMAIN s.ext : s.ext[k] = c.extras[k]

\* a set_store_namespace or load_defaults call leaves every existing handle as it was
OldHandlesKept ==
    last'.op \in LoadOps =>
        /\ Len(handles') = Len(handles)
        /\ \A n \in 1..Len(handles) : Seen(handles', loads', n) = Seen(handles, loads, n)

\* C7: a handle constructed before a set_store_namespace or load_defaults call keeps
\* its groups, pass-through attributes and values, and a handle constructed after a
\* successful call reflects the RawConfiguration that call loaded.
C7_OldKeptNewReflects ==
    [][/\ OldHandlesKept
       /\ (last.op \in LoadOps /\ ~last.logerr /\ last.raised = "none" /\ last'.op = "construct") =>
              Reflects(handles', loads', last'.h, RawConfiguration)]_vars

---------------------------------------------------------------------------
(* validate(), under SpecValidate *)

\* the required keys of each variant, from the table of the data model
ContractKeys(g) ==
    CASE g = "buttons"    -> {"go", "stop"}
      [] g = "frames"     -> {"map"}
      [] g = "actions"    -> {"teleport"}
      [] g = "services"   -> {"clear_costmaps"}
      [] g = "sounds"     -> {"honk"}
      [] g = "topics"     -> {"display_notification", "initial_pose", "switch_map"}
      [] g = "namespaces" -> {"semantics"}
      [] OTHER            -> {}

\* C10: for each of the seven variants and every key set, validate() returns
\* (True, None) exactly when every required key is present, whatever other keys
\* there are, and otherwise (False, message) with a message naming a missing
\* required key.
C10_ValidateIffRequiredPresent ==
    (last.op = "validate" /\ last.ns # "led_patterns") =>
        LET d == GroupOf(last.h, last.ns)
            ret == last.ret[1]
        IN /\ ret.ok <=> ContractKeys(last.ns) \subseteq DOMAIN d
           /\ ret.ok => ret.msg = None
           /\ ~ret.ok => /\ ret.msg # None
                         /\ ret.msg[Len(ret.msg)] \in ContractKeys(last.ns) \ DOMAIN d

\* C10 witness: Buttons holds "go" and two foreign keys but not "stop"; validate()
\* has returned (False, message naming "stop").
C10_Witness ==
    /\ last.op = "validate" /\ last.ns = "buttons"
    /\ DOMAIN GroupOf(last.h, "buttons") = {"go", "extra", "other"}
    /\ last.ret = <<[ok |-> FALSE, msg |-> <<"no definition for", "button", "stop">>]>>

---------------------------------------------------------------------------
(* Repeated construction, under Spec *)

\* C11: two constructs in a row, neither of which changes RawConfiguration, give two
\* handles with the same attribute names and structurally equal values (and the same
\* reports): the first leaves nothing behind that changes the second.
C11_ConstructTwiceSameHandle ==
    [][(/\ last.op = "construct" /\ last'.op = "construct"
        /\ (last.fetched = <<>> \/ last.logerr)
        /\ RawConfiguration' = RawConfiguration) =>
           /\ Seen(handles', loads', last'.h) = Seen(handles', loads', last.h)
           /\ DOMAIN handles'[last'.h].ext = DOMAIN handles'[last.h].ext
           /\ handles'[last'.h].log = handles'[last.h].log]_vars

\* C11 witness: two handles were constructed one after the other from the same
\* populated RawConfiguration, without any fetch; both carry the eight groups and
\* the pass-through attribute.
C11_Witness ==
    /\ last.op = "construct" /\ last.fetched = <<>>
    /\ Len(handles) = Len(<<"first", "second">>)
    /\ shared_state # 0
    /\ \A n \in 1..Len(handles) :
           /\ handles[n].src = shared_state
           /\ CoreAttrs(handles[n]) = EightCoreNames
           /\ handles[n].ext = ("custom_stuff" :> "a")

\* C12: a construct on a RawConfiguration that was never populated, while the store
\* has nothing at the default namespace, raises nothing, logs the failed fetch, leaves
\* RawConfiguration empty, calls error_logger exactly once, with the missing-core-groups
\* message, and returns a handle with no core group and no pass-through attribute.
C12_UnpopulatedConstructDegrades ==
    (last.op = "construct" /\ last.logerr /\ shared_state = 0) =>
        /\ last.raised = "none"
        /\ last.fetched = <<DefaultNamespace>>
        /\ RawConfiguration = InitialDict /\ TopKeys(RawConfiguration) = {}
        /\ last.reported = <<MissingCoreMsg>>
        /\ handles[last.h].log = <<MissingCoreMsg>>
        /\ CoreAttrs(handles[last.h]) = {}
        /\ handles[last.h].ext = EmptyMap

\* C12 witness: the very first call is a construct whose implicit fetch fails.
C12_Witness ==
    /\ last.op = "construct" /\ last.logerr
    /\ shared_state = 0 /\ loads = <<>>
    /\ last.h = 1 /\ Len(handles) = 1
    /\ handles[1].src = 0

\* C13: after a successful set_store_namespace or load_defaults, RawConfiguration is
\* exactly the mapping the call loaded (nothing of the earlier dictionary is merged
\* in), and a handle constructed next is built from the dictionary of that load or
\* of a later one: its pass-through attributes are keys of the dictionary it was
\* built from, never keys that only the earlier configuration had.
C13_LoadReplacesWholly ==
    [][(last.op \in LoadOps /\ last.got # <<>>) =>
           /\ RawConfiguration = last.got[1]
           /\ shared_state = Len(loads)
           /\ last'.op = "construct" =>
                  LET h == handles'[last'.h] IN
                  /\ h.src >= shared_state
                  /\ last'.fetched = <<>> => h.src = shared_state
                  /\ DOMAIN h.ext \subseteq DOMAIN loads'[h.src].extras
                  /\ last'.fetched = <<>> => DOMAIN h.ext \subseteq DOMAIN last.got[1].extras]_vars

\* C13 witness: a configuration with the pass-through key custom_stuff was loaded,
\* then a successful load brought one without that key, and the handle constructed
\* afterwards has only the pass-through key of the second.
C13_Witness ==
    /\ last.op = "construct" /\ last.fetched = <<>>
    /\ Len(loads) = Len(<<"earlier", "loaded">>)
    /\ "custom_stuff" \in DOMAIN loads[1].extras
    /\ shared_state = Len(loads)
    /\ handles[last.h].src = shared_state
    /\ handles[last.h].ext = ("other_stuff" :> "b")

---------------------------------------------------------------------------
(* LEDPatterns and the order of validation, under SpecWide *)

\* C14: whenever RawConfiguration holds the seven store-backed groups, with or without
\* a key named led_patterns, the handle's reports hold no missing-core-groups message,
\* handle.led_patterns is the five fixed patterns, and its validate() returns
\* (True, None).
C14_LedPatternsFixed ==
    \A n \in 1..Len(handles) :
        ~GroupMissing(SourceOf(handles[n])) =>
            /\ \A m \in 1..Len(handles[n].log) : handles[n].log[m] # MissingCoreMsg
            /\ handles[n].led =
                   <<("humans_give_me_input" :> "FLASH_BLUE") @@ ("humans_be_careful" :> "FLASH_YELLOW")
                     @@ ("humans_i_need_help" :> "FLASH_PURPLE") @@ ("holding" :> "AROUND_RIGHT_BLUE")
                     @@ ("error" :> "SOLID_RED")>>
            /\ (last.op = "validate" /\ last.ns = "led_patterns" /\ last.h = n) =>
                   last.ret = <<[ok |-> TRUE, msg |-> <<>>]>>

\* C14 witness: RawConfiguration holds the seven groups and a key named led_patterns,
\* and validate() was called on the led_patterns of a handle built from it.
C14_Witness ==
    /\ last.op = "validate" /\ last.ns = "led_patterns"
    /\ ~GroupMissing(SourceOf(handles[last.h]))
    /\ "led_patterns" \in DOMAIN SourceOf(handles[last.h]).extras
    /\ last.ret # <<>>

\* the order the claim gives to the groups, and to the required keys of each
ListedGroups == <<"actions", "buttons", "namespaces", "frames", "topics", "services", "sounds">>
ListedKeys(g) ==
    CASE g = "actions"    -> <<"teleport">>
      [] g = "buttons"    -> <<"go", "stop">>
      [] g = "namespaces" -> <<"semantics">>
      [] g = "frames"     -> <<"map">>
      [] g = "topics"     -> <<"display_notification", "initial_pose", "switch_map">>
      [] g = "services"   -> <<"clear_costmaps">>
      [] OTHER            -> <<"honk">>
\* the listed positions of the keys group g of dictionary c lacks
MissingAt(c, g) == {n \in 1..Len(ListedKeys(g)) : ListedKeys(g)[n] \notin DOMAIN c.groups[g]}
\* the groups of c lacking a required key, in the listed order
ListedFailing(c) == SelectSeq(ListedGroups, LAMBDA g : MissingAt(c, g) # {})

\* C15: when RawConfiguration holds the seven groups, the construct reports exactly one
\* message for each group lacking a required key, naming the first missing key of that
\* group in listed order only, and the messages come in the order actions, buttons,
\* namespaces, frames, topics, services, sounds.
C15_FirstMissingKeyInOrder ==
    \A n \in 1..Len(handles) :
        LET c == SourceOf(handles[n])
            f == ListedFailing(c)
        IN ~GroupMissing(c) =>
               /\ Len(handles[n].log) = Len(f)
               /\ \A m \in 1..Len(f) :
                      LET first == CHOOSE i \in MissingAt(c, f[m]) : \A j \in MissingAt(c, f[m]) : i <= j
                      IN handles[n].log[m] = <<"no definition for", Noun(f[m]), ListedKeys(f[m])[first]>>

\* C15 witness: buttons lacks both of its keys, topics lacks initial_pose and
\* switch_map, and the handle's reports are the two messages naming go and
\* initial_pose, in that order.
C15_Witness ==
    \E n \in 1..Len(handles) :
        LET c == SourceOf(handles[n]) IN
        /\ ~GroupMissing(c)
        /\ DOMAIN c.groups["buttons"] = {}
        /\ DOMAIN c.groups["topics"] = {"display_notification"}
        /\ handles[n].log = <<NoDefinitionMsg("buttons", "go"), NoDefinitionMsg("topics", "initial_pose")>>

---------------------------------------------------------------------------
(* The implicit fetch and failing loads, under Spec *)

\* C16: as long as RawConfiguration is still the initial empty dictionary (no fetch has
\* succeeded), every construct fetches the default namespace again; a construct whose
\* fetch fails leaves it empty, and one whose fetch succeeds makes RawConfiguration the
\* fetched mapping and returns a handle built from it (with the eight core groups when
\* the mapping holds the seven), no explicit set_store_namespace being needed.
C16_EmptyStateFetchesAgain ==
    [][(shared_state = 0 /\ last'.op = "construct") =>
           /\ last'.fetched = <<DefaultNamespace>>
           /\ last'.logerr => (shared_state' = 0 /\ loads' = loads)
           /\ ~last'.logerr =>
                  /\ last'.got # <<>>
                  /\ RawConfiguration' = last'.got[1]
                  /\ loads'[shared_state'].src = DefaultNamespace
                  /\ handles'[last'.h].src = shared_state'
                  /\ Reflects(handles', loads', last'.h, last'.got[1])]_vars

\* C16 witness: a first construct found nothing in the store and returned a handle
\* without groups; the next construct fetched the default namespace itself, populated
\* RawConfiguration and returned a handle with the eight core groups. No other call
\* ever loaded a dictionary.
C16_Witness ==
    /\ Len(handles) = Len(<<"degraded", "complete">>)
    /\ handles[1].src = 0 /\ CoreAttrs(handles[1]) = {}
    /\ last.op = "construct" /\ last.h = Len(handles)
    /\ last.fetched = <<DefaultNamespace>> /\ ~last.logerr
    /\ Len(loads) = 1 /\ shared_state = 1
    /\ handles[last.h].src = 1
    /\ CoreAttrs(handles[last.h]) = EightCoreNames

\* C18: a load_defaults that fails raises its error to the caller and leaves
\* RawConfiguration, every loaded dictionary and every handle exactly as before; a
\* handle constructed next from a populated RawConfiguration is built from that
\* previous configuration, without any fetch.
C18_FailedDefaultsKeepsState ==
    [][/\ (last'.op = "load_defaults" /\ last'.got = <<>>) =>
              /\ last'.raised # "none"
              /\ shared_state' = shared_state /\ loads' = loads /\ handles' = handles
              /\ RawConfiguration' = RawConfiguration
       /\ (/\ last.op = "load_defaults" /\ last.raised # "none"
           /\ TopKeys(RawConfiguration) # {}
           /\ last'.op = "construct") =>
              /\ last'.fetched = <<>>
              /\ RawConfiguration' = RawConfiguration
              /\ handles'[last'.h].src = shared_state
              /\ Reflects(handles', loads', last'.h, RawConfiguration)]_vars

\* C18 witness: a configuration fetched from the store is in place, with a handle
\* built from it, and the load_defaults called after that has just failed.
C18_Witness ==
    /\ last.op = "load_defaults" /\ last.raised # "none"
    /\ shared_state # 0 /\ TopKeys(RawConfiguration) # {}
    /\ loads[shared_state].src = DefaultNamespace
    /\ \E n \in 1..Len(handles) : handles[n].src = shared_state

---------------------------------------------------------------------------
(* Construction interleaved with loads, under SpecThreads *)

\* the instances whose __init__ has returned
Returned == {inits[t] : t \in {u \in Threads : inits[u].pc = "done"}}
\* the instance i shows, group by group and in its pass-through attributes, what an
\* instance built from dictionary c alone would show
FromOne(i, c) ==
    /\ \A g \in DOMAIN i.refs :
           g \in DOMAIN c.groups /\ loads[i.refs[g]].groups[g] = c.groups[g]
    /\ i.from # <<>> => i.ext = PassThrough(c)

\* C17: while constructs and loads interleave, RawConfiguration is the complete result
\* of the latest successful load, and every returned handle has all its core groups
\* and pass-through attributes derived from one single RawConfiguration value.
C17_HandleFromOneConfiguration ==
    /\ (last.op \in LoadOps /\ last.got # <<>>) => RawConfiguration = last.got[1]
    /\ \A i \in Returned :
           i.refs # EmptyMap => \E n \in 1..Len(loads) : FromOne(i, loads[n])

\* C17 (amended): while constructs and loads interleave, RawConfiguration changes only
\* by becoming the complete result of one load (last write wins, never a mix); each
\* core group of a handle is one whole group of the RawConfiguration value current
\* when __init__ reads it, and its pass-through attributes are those of the value
\* current when the copy loop starts; a group read later never comes from an older
\* configuration than a group read earlier.  The groups of one handle need not come
\* from the same value.
C17_EachAttributeFromOneLoad ==
    [][/\ shared_state' # shared_state =>
              /\ last'.op \in LoadOps /\ last'.got # <<>>
              /\ shared_state' = Len(loads')
              /\ RawConfiguration' = last'.got[1]
       /\ \A t \in Threads :
              LET i == inits[t]
                  j == inits'[t]
              IN /\ \A g \in DOMAIN j.refs :
                        /\ j.refs[g] \in 1..Len(loads')
                        /\ g \in DOMAIN loads'[j.refs[g]].groups
                        /\ g \notin DOMAIN i.refs => j.refs[g] = shared_state
                 /\ \A m, n \in 1..Len(TryOrder) :
                        (m < n /\ TryOrder[n] \in DOMAIN j.refs) =>
                            /\ TryOrder[m] \in DOMAIN j.refs
                            /\ j.refs[TryOrder[m]] <= j.refs[TryOrder[n]]
                 /\ (i.pc = "copy" /\ j.pc = "done") =>
                        /\ j.ext = PassThrough(RawConfiguration)
                        /\ j.from = <<shared_state>>
                 /\ j.from # <<>> =>
                        /\ DOMAIN j.refs = StoreGroups /\ j.led # <<>>
                        /\ j.ext = PassThrough(loads'[j.from[1]])
                        /\ \A g \in DOMAIN j.refs : j.refs[g] <= j.from[1]]_vars

\* C17 witness: a load came between the statements of an __init__: the returned handle
\* has the buttons group of the first configuration (go = "a") and the pass-through
\* attribute of the second.
C17_Witness ==
    \E i \in Returned :
        /\ i.from # <<>>
        /\ loads[i.refs["buttons"]].groups["buttons"]["go"] = "a"
        /\ i.ext = ("other_stuff" :> "b")
        /\ i.refs["buttons"] < i.from[1]

====
